---- MODULE Spec2Model ----
(***************************************************************************)
(* Model of src/src/app.py: the COVID-19 dashboard.                        *)
(*                                                                         *)
(* Tables (pandas data frames) are sets of records, one record per row,    *)
(* one field per column.  Column 'Country/Region' is the field             *)
(* Country_Region and 'WHO Region' the field WHO_Region.  Of the seven     *)
(* numeric metric columns, all of which go through the same 'mean'         *)
(* aggregation, the model carries Confirmed.  The geometry column is       *)
(* opaque and always travels with country_code, so country_code stands for *)
(* both.  A numeric metric value is an exact rational <<num, den>> in      *)
(* lowest terms (a raw count v is <<v, 1>>), so that a mean is computed,   *)
(* never rounded.  Dates are the ISO strings 'YYYY-MM-DD' of the csv file, *)
(* which the query compares as strings; on strings of that one shape the   *)
(* comparison is the order of the days, modelled as the integers           *)
(* 1..MaxDate.                                                             *)
(***************************************************************************)
EXTENDS Integers, FiniteSets, Sequences, TLC

\* ---- bounds of the model ------------------------------------------------
MaxDate == 2
MaxConfirmed == 2

\* ---- values --------------------------------------------------------------
None == "None"          \* Python's None: a cleared dropdown, an unset slot
All == "All"
NaN == 0 - 1            \* the null of a numeric column (populations are > 0)
NoArgs == [country |-> None, continent |-> None, start_date |-> 0, end_date |-> 0]

Dates == 1..MaxDate
Countries == {"A", "B", "C"}
Regions == {"X", "Y"}
RegionOf(c) == IF c = "C" THEN "Y" ELSE "X"
PopulationOf(c) == CASE c = "A" -> 1 [] c = "B" -> 2 [] c = "C" -> 4 [] OTHER -> 8
ScaleOf(c) == CASE c = "A" -> 1 [] c = "B" -> 2 [] OTHER -> 3
CodeOf(c) == CASE c = "A" -> "AAA" [] c = "B" -> "BBB" [] c = "C" -> "CCC" [] OTHER -> "DDD"

VARIABLES
    pc,                    \* "startup" before the module-level joins ran, then "ready"
    month_data,            \* load_daily_data()
    population_data,       \* load_population_data()
    country_code_data,     \* load_country_code_data()
    countries_daywise_df,  \* the joined country-day table
    continents_daywise_df, \* the continent-day table
    world_daywise_df,      \* the world-day table
    prev_vals,             \* the two process-wide slots
    data,                  \* filter_plot: the table handed to plot()
    plot_rows,             \* filter_plot: plot_data after the date query (line 224)
    plot_data,             \* filter_plot: the table handed to generate_map()
    args,                  \* the arguments of the last filter_plot event
    upd,                   \* what is_updated returned for each key on entry of that event
    differs,               \* whether each dropdown value differed from the preceding event's
    n_events               \* filter_plot events so far, counted up to 2

vars == <<pc, month_data, population_data, country_code_data, countries_daywise_df,
          continents_daywise_df, world_daywise_df, prev_vals, data, plot_rows,
          plot_data, args, upd, differs, n_events>>

\* ---- arithmetic helpers --------------------------------------------------
RECURSIVE GCD(_, _)
GCD(a, b) == IF b = 0 THEN a ELSE GCD(b, a % b)

\* The rational n/d in lowest terms.
Frac(n, d) == <<n \div GCD(n, d), d \div GCD(n, d)>>

\* Sum of the Confirmed column of raw rows (denominator 1).
RECURSIVE SumConfirmed(_)
SumConfirmed(rows) ==
    IF rows = {} THEN 0
    ELSE LET r == CHOOSE x \in rows : TRUE
         IN r.Confirmed[1] + SumConfirmed(rows \ {r})

\* population_data['Population'].sum(): nulls are skipped.
RECURSIVE SumPopulation(_)
SumPopulation(rows) ==
    IF rows = {} THEN 0
    ELSE LET r == CHOOSE x \in rows : TRUE
         IN (IF r.Population = NaN THEN 0 ELSE r.Population) + SumPopulation(rows \ {r})

\* Mutant: the group's sum instead of its mean.
MeanConfirmed_Sum(rows) == <<SumConfirmed(rows), 1>>

\* agg('mean') of the Confirmed column over a non-empty group.
MeanConfirmed(rows) == Frac(SumConfirmed(rows), Cardinality(rows))

\* ---- the three loaders ---------------------------------------------------
\* The daily file holds one row per (date, country) it reports; absent is the
\* set of (date, country) cells the file lacks, conf the size of each
\* country's counts (cumulative, so growing with the date).
load_daily_data(absent, conf) ==
    {[Date |-> d, Country_Region |-> c, WHO_Region |-> RegionOf(c),
      Confirmed |-> <<conf[c] * d, 1>>] :
        <<d, c>> \in (Dates \X Countries) \ absent}

\* One row per country of the population file; "D" is a country the daily
\* file never reports.
load_population_data(unmatched) ==
    {[Country_Region |-> c, Population |-> PopulationOf(c)] :
        c \in (Countries \cup {"D"}) \ unmatched}

\* One row per country (ADMIN name) of the shapefile.
load_country_code_data(unmatched) ==
    {[country |-> c, country_code |-> CodeOf(c)] :
        c \in (Countries \cup {"D"}) \ unmatched}

\* ---- joins ---------------------------------------------------------------
\* Mutant: an inner join, which drops the rows without a population.
join_population_data_Inner(daily_data, population) ==
    {x[1] @@ [Population |-> x[2].Population] :
        x \in {y \in daily_data \X population :
                 y[1].Country_Region = y[2].Country_Region}}

\* daily_data.merge(population_data, how='left', on='Country/Region')
join_population_data(daily_data, population) ==
    {x[1] @@ [Population |-> x[2].Population] :
        x \in {y \in daily_data \X population :
                 y[1].Country_Region = y[2].Country_Region}}
    \cup
    {d @@ [Population |-> NaN] :
        d \in {x \in daily_data :
                 \A p \in population : p.Country_Region # x.Country_Region}}

\* country_code_data.merge(daily_data, left_on='country',
\*                         right_on='Country/Region').drop(['country'], axis=1)
join_country_code_data(daily_data, country_code) ==
    {x[2] @@ [country_code |-> x[1].country_code] :
        x \in {y \in country_code \X daily_data :
                 y[1].country = y[2].Country_Region}}

\* ---- aggregation ---------------------------------------------------------
\* Mutant: the population summed over the group's own countries.
calculate_continent_statistics_GroupPopulation(countries_df, group_col) ==
    {[Date |-> k[1], WHO_Region |-> k[2],
      Confirmed |-> MeanConfirmed({r \in countries_df :
                                     r[group_col] = k[1] /\ r.WHO_Region = k[2]}),
      Country_Region |-> All,
      Population |-> SumPopulation({r \in countries_df :
                                      r[group_col] = k[1] /\ r.WHO_Region = k[2]})] :
        k \in {<<r[group_col], r.WHO_Region>> : r \in countries_df}}

\* drop(drop_cols).groupby([group_col, 'WHO Region']).agg('mean'), then the
\* two synthetic columns.
calculate_continent_statistics(countries_df, group_col) ==
    {[Date |-> k[1], WHO_Region |-> k[2],
      Confirmed |-> MeanConfirmed({r \in countries_df :
                                     r[group_col] = k[1] /\ r.WHO_Region = k[2]}),
      Country_Region |-> All,
      Population |-> SumPopulation(population_data)] :
        k \in {<<r[group_col], r.WHO_Region>> : r \in countries_df}}

calculate_continent_daywise(countries_df) ==
    calculate_continent_statistics(countries_df, "Date")

\* Mutant: the world table aggregated from the daily file instead of the
\* joined table.
calculate_world_statistics_Unjoined(countries_df, group_col) ==
    {[Date |-> k,
      Confirmed |-> MeanConfirmed({r \in month_data : r[group_col] = k}),
      Country_Region |-> All,
      WHO_Region |-> All,
      Population |-> SumPopulation(population_data)] :
        k \in {r[group_col] : r \in month_data}}

\* drop(drop_cols).groupby(group_col).agg('mean'), then the three synthetic
\* columns.
calculate_world_statistics(countries_df, group_col) ==
    {[Date |-> k,
      Confirmed |-> MeanConfirmed({r \in countries_df : r[group_col] = k}),
      Country_Region |-> All,
      WHO_Region |-> All,
      Population |-> SumPopulation(population_data)] :
        k \in {r[group_col] : r \in countries_df}}

calculate_world_daywise(countries_df) ==
    calculate_world_statistics(countries_df, "Date")

\* ---- filter_plot ---------------------------------------------------------
is_updated(key, new_value) ==
    \/ (prev_vals[key] = None /\ new_value # None)
    \/ (prev_vals[key] # None /\ prev_vals[key] # new_value)

\* Mutant: the country dropdown is looked at first.
SelectTables_CountryFirst(country, continent) ==
    IF is_updated("country", country)
    THEN IF country # All
         THEN [data |-> {r \in countries_daywise_df : r.Country_Region = country},
               plot_data |-> {r \in countries_daywise_df : r.Country_Region = country}]
         ELSE [data |-> world_daywise_df, plot_data |-> countries_daywise_df]
    ELSE IF is_updated("continent", continent) /\ continent # All
         THEN [data |-> {r \in continents_daywise_df : r.WHO_Region = continent},
               plot_data |-> {r \in countries_daywise_df : r.WHO_Region = continent}]
         ELSE [data |-> world_daywise_df, plot_data |-> countries_daywise_df]

\* Mutant: a continent selected earlier keeps narrowing while nothing changes.
SelectTables_Sticky(country, continent) ==
    IF continent \notin {All, None}
    THEN [data |-> {r \in continents_daywise_df : r.WHO_Region = continent},
          plot_data |-> {r \in countries_daywise_df : r.WHO_Region = continent}]
    ELSE IF is_updated("country", country) /\ country # All
         THEN [data |-> {r \in countries_daywise_df : r.Country_Region = country},
               plot_data |-> {r \in countries_daywise_df : r.Country_Region = country}]
         ELSE [data |-> world_daywise_df, plot_data |-> countries_daywise_df]

\* Lines 209-221: the tables the two dropdowns select, before the date query.
SelectTables(country, continent) ==
    IF is_updated("continent", continent)
    THEN IF continent # All
         THEN [data |-> {r \in continents_daywise_df : r.WHO_Region = continent},
               plot_data |-> {r \in countries_daywise_df : r.WHO_Region = continent}]
         ELSE [data |-> world_daywise_df, plot_data |-> countries_daywise_df]
    ELSE IF is_updated("country", country) /\ country # All
         THEN [data |-> {r \in countries_daywise_df : r.Country_Region = country},
               plot_data |-> {r \in countries_daywise_df : r.Country_Region = country}]
         ELSE [data |-> world_daywise_df, plot_data |-> countries_daywise_df]

\* Lines 212-218: the slot of the branch taken is the only one written.
StorePrevVals(country, continent) ==
    IF is_updated("continent", continent)
    THEN [prev_vals EXCEPT !["continent"] = continent]
    ELSE IF is_updated("country", country)
         THEN [prev_vals EXCEPT !["country"] = country]
         ELSE prev_vals

\* Mutant: the start of the range is excluded.
Query_Exclusive(df, start_date, end_date) ==
    {r \in df : r.Date > start_date /\ r.Date <= end_date}

\* df.query('Date >= @start_date & Date <= @end_date')
Query(df, start_date, end_date) ==
    {r \in df : r.Date >= start_date /\ r.Date <= end_date}

\* Mutant: the columns are dropped but the rows are not grouped.
AggregateByCountry_Ungrouped(rows) ==
    {[Country_Region |-> r.Country_Region, Population |-> r.Population,
      Confirmed |-> r.Confirmed, WHO_Region |-> r.WHO_Region] : r \in rows}

\* Line 229: drop(['geometry', 'country_code', 'Date']).groupby(['Country/Region'])
\* .agg(metrics).reset_index(); 'first' is the first non-null value of the group.
AggregateByCountry(rows) ==
    {LET g == {r \in rows : r.Country_Region = c}
         known == {r.Population : r \in g} \ {NaN}
     IN [Country_Region |-> c,
         Population |-> IF known = {} THEN NaN ELSE CHOOSE p \in known : TRUE,
         Confirmed |-> MeanConfirmed(g),
         WHO_Region |-> CHOOSE w \in {r.WHO_Region : r \in g} : TRUE] :
        c \in {r.Country_Region : r \in rows}}

\* ---- the state machine ---------------------------------------------------
\* The state once the three files are read (lines 90-92) and before the
\* module-level joins ran: the files' contents are drawn from the given
\* sets, everything else is as constructed.
Loaded(absents, confs, no_population, no_geometry) ==
    /\ pc = "startup"
    /\ \E absent \in absents, conf \in confs :
            month_data = load_daily_data(absent, conf)
    /\ \E unmatched \in no_population :
            population_data = load_population_data(unmatched)
    /\ \E unmatched \in no_geometry :
            country_code_data = load_country_code_data(unmatched)
    /\ countries_daywise_df = {}
    /\ continents_daywise_df = {}
    /\ world_daywise_df = {}
    /\ prev_vals = [country |-> None, continent |-> None]
    /\ data = {}
    /\ plot_rows = {}
    /\ plot_data = {}
    /\ args = NoArgs
    /\ upd = [country |-> FALSE, continent |-> FALSE]
    /\ differs = [country |-> FALSE, continent |-> FALSE]
    /\ n_events = 0

\* The files of the callback's specification: every country reports every
\* date, or country "C" starts reporting a day late; counts differ from
\* country to country; the population file lacks "A"; the shapefile lacks
\* no, one or two of the countries.
Init ==
    Loaded({{}, {<<1, "C">>}},
           {[c \in Countries |-> ScaleOf(c)]},
           {{"A"}},
           {{}, {"A"}, {"A", "B"}})

\* The files of the startup specification: at most one (date, country) cell
\* absent, every assignment of counts, and any set of countries missing from
\* the population file and from the shapefile.
InitFiles ==
    Loaded({s \in SUBSET (Dates \X Countries) : Cardinality(s) <= 1},
           [Countries -> 1..MaxConfirmed],
           SUBSET Countries,
           SUBSET Countries)

\* Lines 94-98: the module-level joins and aggregations.
Startup ==
    /\ pc = "startup"
    /\ pc' = "ready"
    /\ LET joined == join_country_code_data(
                         join_population_data(month_data, population_data),
                         country_code_data)
       IN /\ countries_daywise_df' = joined
          /\ continents_daywise_df' = calculate_continent_daywise(joined)
          /\ world_daywise_df' = calculate_world_daywise(joined)
    /\ UNCHANGED <<month_data, population_data, country_code_data, prev_vals, data,
                   plot_rows, plot_data, args, upd, differs, n_events>>

\* The values the callback can be called with: a dropdown holds one of its
\* options or, once cleared, None.
CountryValues == {None, All} \cup Countries
ContinentValues == {None, All} \cup Regions

\* Lines 208-232: one callback invocation.
filter_plot(country, continent, start_date, end_date) ==
    /\ pc = "ready"
    /\ LET sel == SelectTables(country, continent)
           filtered == Query(sel.plot_data, start_date, end_date)
       IN /\ data' = Query(sel.data, start_date, end_date)
          /\ plot_rows' = filtered
          /\ plot_data' = join_country_code_data(AggregateByCountry(filtered),
                                                 country_code_data)
    /\ prev_vals' = StorePrevVals(country, continent)
    /\ upd' = [country |-> is_updated("country", country),
               continent |-> is_updated("continent", continent)]
    /\ differs' = [country |-> country # args.country,
                   continent |-> continent # args.continent]
    /\ args' = [country |-> country, continent |-> continent,
                start_date |-> start_date, end_date |-> end_date]
    /\ n_events' = IF n_events < 2 THEN n_events + 1 ELSE n_events
    /\ UNCHANGED <<pc, month_data, population_data, country_code_data,
                   countries_daywise_df, continents_daywise_df, world_daywise_df>>

FilterPlot ==
    \E country \in CountryValues, continent \in ContinentValues,
       start_date \in Dates, end_date \in Dates :
        filter_plot(country, continent, start_date, end_date)

Next == Startup \/ FilterPlot

Spec == Init /\ [][Next]_vars

\* Startup alone, over every file content within the bounds.
SpecStartup == InitFiles /\ [][Startup]_vars

\* ---- the claims ----------------------------------------------------------

\* C1: in an event in which is_updated reports both dropdowns as changed, the
\* continent value alone selects the outputs (within the event's date
\* range): for a continent other than 'All' the line-chart table is the
\* continent-day rows of that WHO region and the map holds exactly the
\* countries of that region; for 'All' they are the world-day table and all
\* countries.  The country value plays no part.
C1_ContinentAloneSelects ==
    (n_events > 0 /\ upd.continent /\ upd.country) =>
        IF args.continent # All
        THEN /\ data = {r \in continents_daywise_df :
                          /\ r.WHO_Region = args.continent
                          /\ args.start_date <= r.Date /\ r.Date <= args.end_date}
             /\ \A r \in plot_data : r.WHO_Region = args.continent
             /\ {r.Country_Region : r \in plot_data} =
                    {r.Country_Region : r \in {x \in countries_daywise_df :
                          /\ x.WHO_Region = args.continent
                          /\ args.start_date <= x.Date /\ x.Date <= args.end_date}}
        ELSE /\ data = {r \in world_daywise_df :
                          args.start_date <= r.Date /\ r.Date <= args.end_date}
             /\ {r.Country_Region : r \in plot_data} =
                    {r.Country_Region : r \in {x \in countries_daywise_df :
                          args.start_date <= x.Date /\ x.Date <= args.end_date}}

\* C1 witness: both dropdowns changed, the country passed lies outside the
\* continent passed, and the outputs are the continent's.
C1_Witness ==
    /\ n_events > 0 /\ upd.continent /\ upd.country
    /\ args.continent = "X" /\ args.country = "C"
    /\ data # {}
    /\ {r.Country_Region : r \in plot_data} = {"A", "B"}

\* C2 (as claimed): from the second event on, a dropdown's filter narrows the
\* outputs only if the dropdown's value differs from the value it had in the
\* immediately preceding event.
C2_HonoredOnlyIfChanged ==
    n_events = 2 =>
        /\ (upd.continent /\ args.continent # All) => differs.continent
        /\ (~upd.continent /\ upd.country /\ args.country # All) => differs.country

\* C3: in an event in which is_updated reports neither dropdown as changed,
\* the line-chart table is the world-day table within the date range and the
\* map is built from all countries within the date range, whatever the two
\* dropdowns hold.
C3_UnchangedSelectsWorld ==
    (n_events > 0 /\ ~upd.continent /\ ~upd.country) =>
        /\ data = {r \in world_daywise_df :
                     args.start_date <= r.Date /\ r.Date <= args.end_date}
        /\ plot_rows = {r \in countries_daywise_df :
                          args.start_date <= r.Date /\ r.Date <= args.end_date}
        /\ {r.Country_Region : r \in plot_data} =
               {r.Country_Region : r \in {x \in countries_daywise_df :
                     args.start_date <= x.Date /\ x.Date <= args.end_date}}

\* C3 witness: nothing changed while a continent and a country are selected,
\* and the map still shows a country of another continent.
C3_Witness ==
    /\ n_events > 0 /\ ~upd.continent /\ ~upd.country
    /\ args.continent = "X" /\ args.country = "A"
    /\ data # {}
    /\ \E r \in plot_data : r.WHO_Region = "Y"

\* C4: whatever the stored previous values, an event with continent 'All',
\* country 'All' and a date range covering every date of the data returns
\* exactly the world-day table as line-chart table.
C4_AllAllFullRange ==
    (/\ n_events > 0
     /\ args.continent = All /\ args.country = All
     /\ \A r \in countries_daywise_df :
            args.start_date <= r.Date /\ r.Date <= args.end_date)
        => data = world_daywise_df

\* C4 witness: such an event, arriving when a country was the dropdown's
\* previous value, over a world table of at least two days.
C4_Witness ==
    /\ n_events = 2
    /\ args.continent = All /\ args.country = All
    /\ \A r \in countries_daywise_df :
           args.start_date <= r.Date /\ r.Date <= args.end_date
    /\ upd.country /\ ~upd.continent
    /\ Cardinality(world_daywise_df) >= 2
    /\ data = world_daywise_df

\* C5: when the event selects the world-day table and start_date <= end_date,
\* the date-filtered table has exactly one row for each distinct date of the
\* joined data within the range, bounds included, and no other row.
C5_OneRowPerDateInRange ==
    (/\ n_events > 0
     /\ args.start_date <= args.end_date
     /\ \/ upd.continent /\ args.continent = All
        \/ ~upd.continent /\ ~(upd.country /\ args.country # All))
        => /\ Cardinality(data) =
                Cardinality({d \in Dates :
                    /\ args.start_date <= d /\ d <= args.end_date
                    /\ \E r \in countries_daywise_df : r.Date = d})
           /\ \A d \in {r.Date : r \in data} :
                Cardinality({r \in data : r.Date = d}) = 1

\* C5 witness: the world-day table selected over a range that holds a date
\* with joined rows and a date on which no joined row exists.
C5_Witness ==
    /\ n_events > 0
    /\ args.start_date < args.end_date
    /\ \/ upd.continent /\ args.continent = All
       \/ ~upd.continent /\ ~(upd.country /\ args.country # All)
    /\ \E d \in Dates :
          /\ args.start_date <= d /\ d <= args.end_date
          /\ \E r \in month_data : r.Date = d
          /\ \A r \in countries_daywise_df : r.Date # d
    /\ data # {}

\* C6: every row of the continent-day table carries as Population the sum of
\* the population table, the same value for every (date, WHO region) group.
C6_ContinentPopulationIsTotal ==
    pc = "ready" =>
        \A r \in continents_daywise_df :
            r.Population = SumPopulation(population_data)

\* C6 witness: two regions in the table, and a population file whose total
\* is not the total of the countries that made it into the joined table.
C6_Witness ==
    /\ pc = "ready"
    /\ {r.WHO_Region : r \in continents_daywise_df} = Regions
    /\ \E c \in Countries :
          /\ \E p \in population_data : p.Country_Region = c
          /\ \A r \in countries_daywise_df : r.Country_Region # c

\* C7: the Confirmed value of the continent-day row of (date, region) is the
\* arithmetic mean, sum divided by number of rows, of Confirmed over the
\* joined country-day rows of that region on that date; and every (date,
\* region) with joined rows has exactly one such row.
C7_ContinentConfirmedIsMean ==
    pc = "ready" =>
        /\ \A r \in continents_daywise_df :
              LET g == {j \in countries_daywise_df :
                          j.Date = r.Date /\ j.WHO_Region = r.WHO_Region}
              IN /\ g # {}
                 /\ r.Confirmed[2] > 0
                 /\ r.Confirmed[1] * Cardinality(g) = SumConfirmed(g) * r.Confirmed[2]
        /\ \A j \in countries_daywise_df :
              Cardinality({r \in continents_daywise_df :
                  r.Date = j.Date /\ r.WHO_Region = j.WHO_Region}) = 1

\* C7 witness: a group of two countries with different counts, whose mean is
\* neither count nor their sum.
C7_Witness ==
    /\ pc = "ready"
    /\ \E r \in continents_daywise_df :
          LET g == {j \in countries_daywise_df :
                      j.Date = r.Date /\ j.WHO_Region = r.WHO_Region}
          IN /\ Cardinality(g) = 2
             /\ r.Confirmed[2] = 2
             /\ r.Confirmed # <<SumConfirmed(g), 1>>

C9_SlotsHoldLastSeen ==
    n_events > 0 =>
        /\ prev_vals["continent"] = args.continent
        /\ prev_vals["country"] = args.country

\* C10 (as claimed): every row of the joined country-day table has both a
\* population and a country code, rows without a match in either file being
\* dropped.
C10_EveryRowHasPopulationAndCode ==
    pc = "ready" =>
        \A r \in countries_daywise_df :
            /\ r.Population # NaN
            /\ \E g \in country_code_data :
                  g.country = r.Country_Region /\ g.country_code = r.country_code

\* C10 (amended): a daily row is in the joined table exactly if its country
\* is in the geometry table, and then carries that country's code; a row
\* whose country is not in the population table is kept, with a null
\* population.
C10_DroppedOnlyWithoutGeometry ==
    pc = "ready" =>
        /\ \A r \in countries_daywise_df :
              /\ \E g \in country_code_data :
                    g.country = r.Country_Region /\ g.country_code = r.country_code
              /\ (r.Population = NaN) <=>
                    (\A p \in population_data : p.Country_Region # r.Country_Region)
        /\ \A d \in month_data :
              (\E r \in countries_daywise_df :
                    r.Date = d.Date /\ r.Country_Region = d.Country_Region)
              <=> (\E g \in country_code_data : g.country = d.Country_Region)

\* C10 witness: a joined table that lost the rows of a country without
\* geometry and kept, with a null population, those of a country without
\* population.
C10_Witness ==
    /\ pc = "ready"
    /\ \E r \in countries_daywise_df : r.Population = NaN
    /\ \E d \in month_data :
          \A r \in countries_daywise_df : r.Country_Region # d.Country_Region

====
